---- MODULE Spec2Model ----
(***************************************************************************)
(* Model of the two command-line programs of the repository:               *)
(*   scripts/add_license_to_repos.py    (the License Applier)              *)
(*   scripts/list_unlicensed_repos.py   (the Repo Lister)                  *)
(*                                                                         *)
(* Text (repository names, paths, URLs) is a sequence of one-character     *)
(* strings, so that str.split and os.path.join are computed on characters. *)
(* Python's None is the value None below.                                  *)
(***************************************************************************)
EXTENDS Naturals, Sequences, FiniteSets

VARIABLES
    \* ---- License Applier (add_license_to_repos.py) ----
    apc,        \* position in main/process_repo
    args,       \* parsed command line: dry_run, push, no_ssh, token, no_sign
    env,        \* what main finds on disk: license file present, repo list loadable, its content
    repos,      \* the loaded listing
    idx,        \* index (1-based) of the record the for loop is at
    full_name,  \* process_repo local
    dest,       \* process_repo local
    dirs,       \* directories that exist
    licensed,   \* directories holding a LICENSE file written by the copy step
    procs,      \* external processes invoked by run(), in order
    alog,       \* lines printed by the Applier (stdout and stderr), as tags
    started,    \* indices of the records process_repo was called for, in order
    raised,     \* the step whose exception left main uncaught, or "none"
    aexit,      \* exit code of the Applier
    \* ---- Repo Lister (list_unlicensed_repos.py) ----
    lpc,        \* position in main/list_unlicensed_repos
    largs,      \* parsed command line: token, out, quiet
    server,     \* the responses of the listing endpoint to the requests sent, in order
    writable,   \* whether the --out file can be opened for writing
    page,       \* list_unlicensed_repos local
    out,        \* list_unlicensed_repos local: the records collected
    requests,   \* the GET requests sent, in order
    lstdout,    \* lines printed to stdout
    lstderr,    \* lines printed to stderr, as tags
    outfile,    \* the --out file: written or not, and its JSON content
    lexit,      \* exit code of the Lister
    \* ---- process_repo's directory derivation applied to one record ----
    ppc, prec, pname, pdest

avars == <<apc, args, env, repos, idx, full_name, dest, dirs, licensed, procs,
           alog, started, raised, aexit>>
lvars == <<lpc, largs, server, writable, page, out, requests, lstdout, lstderr, outfile, lexit>>
pvars == <<ppc, prec, pname, pdest>>
vars == <<avars, lvars, pvars>>

\* ------------------------------------------------------------------ bounds
MaxRepos == 2      \* records in the Applier's listing
MaxNameLen == 5    \* characters of a full_name in the path derivation
MaxPages == 2      \* responses the listing endpoint has before it serves empty pages
MaxItems == 3      \* items the listing endpoint serves over all its pages

\* ------------------------------------------------------------------ text
None == <<"None">>
Sep == "/"

\* Python truthiness of an Optional[str]
Truthy(x) == x # None /\ x # <<>>

\* a or b
PyOr(a, b) == IF Truthy(a) THEN a ELSE b

\* position of the first "/" of s, 0 when there is none
FirstSep(s) ==
    IF \E i \in 1..Len(s) : s[i] = Sep
    THEN CHOOSE i \in 1..Len(s) : s[i] = Sep /\ \A j \in 1..(i-1) : s[j] # Sep
    ELSE 0

\* s.split("/", 1)
SplitOnce(s) ==
    LET i == FirstSep(s)
    IN  IF i = 0 THEN <<s>> ELSE <<SubSeq(s, 1, i-1), SubSeq(s, i+1, Len(s))>>

\* seq[-1]
Last(seq) == seq[Len(seq)]

\* faulty variant: rsplit: the text after the last "/"
RepoNameLastSegment(fn) ==
    IF \E i \in 1..Len(fn) : fn[i] = Sep
    THEN SubSeq(fn, (CHOOSE i \in 1..Len(fn) : fn[i] = Sep /\ \A j \in (i+1)..Len(fn) : fn[j] # Sep) + 1,
                Len(fn))
    ELSE fn

\* full_name.split("/", 1)[-1]
RepoName(fn) == Last(SplitOnce(fn))

\* os.path.join(a, b) of posixpath
PathJoin(a, b) ==
    IF Len(b) > 0 /\ b[1] = Sep THEN b
    ELSE IF a = <<>> \/ a[Len(a)] = Sep THEN a \o b
    ELSE a \o <<Sep>> \o b

\* repo.get("full_name") or repo.get("name")
ResolveName(repo) == PyOr(repo.full_name, repo.name)

\* --workdir (one fixed directory)
Workdir == <<"w">>

\* dest = os.path.join(workdir, repo_name)
DestOf(fn) == PathJoin(Workdir, RepoName(fn))

\* repo_clone_url(full_name, use_ssh, token)
RepoCloneUrl(fn, use_ssh, token) ==
    IF use_ssh THEN <<"git@github.com:">> \o fn \o <<".git">>
    ELSE IF Truthy(token) THEN <<"https://">> \o token \o <<"@github.com/">> \o fn \o <<".git">>
    ELSE <<"https://github.com/">> \o fn \o <<".git">>

\* ------------------------------------------------------- License Applier
\* inputs: the records a listing is made of
RecUA   == [full_name |-> <<"u", "/", "a">>, name |-> <<"a">>]
RecVA   == [full_name |-> <<"v", "/", "a">>, name |-> <<"a">>]
RecB    == [full_name |-> None, name |-> <<"b">>]
RecNone == [full_name |-> <<>>, name |-> None]
Records == {RecUA, RecVA, RecB, RecNone}

SeqsUpTo(S, n) == UNION {[1..k -> S] : k \in 0..n}

Listings == SeqsUpTo(Records, MaxRepos)

\* every combination of --dry-run, --push, --no-ssh, --token, --no-sign
ArgSets == [dry_run : BOOLEAN, push : BOOLEAN, no_ssh : BOOLEAN,
            token : {None, <<"t">>}, no_sign : BOOLEAN]

\* --message (default)
CommitMsg == "feat: add licence"

\* the directories above p
Parents(p) == {SubSeq(p, 1, i-1) : i \in {j \in 2..Len(p) : p[j] = Sep}}

PossibleDirs ==
    LET ds == {DestOf(ResolveName(r)) : r \in {q \in Records : Truthy(ResolveName(q))}}
    IN  ds \cup {Workdir} \cup UNION {Parents(d) : d \in ds}

\* a directory tree: every directory's parents exist
FsStates == {D \in SUBSET PossibleDirs : \A d \in D : Parents(d) \subseteq D}

\* os.path.exists(dest)
PathExists(d) == d \in dirs

\* seq.insert(i, x) with Python's 0-based i
PyInsert(seq, i, x) == SubSeq(seq, 1, i) \o <<x>> \o SubSeq(seq, i+1, Len(seq))

\* commit_cmd of process_repo
CommitCmd(sign) ==
    LET base == <<"git", "commit", "-m", CommitMsg>>
    IN  IF sign THEN PyInsert(base, 2, "-S") ELSE base

\* run(cmd, cwd): the echo line, then subprocess.run(check=True) ending with rc
Proc(op, argv, operands, cwd, rc) ==
    [rec |-> idx, op |-> op, argv |-> argv, operands |-> operands, cwd |-> cwd, rc |-> rc]

\* the exit status of an external process
ExitCodes == {0, 1}

\* an exception leaves main uncaught: traceback, exit status 1
Uncaught(step) ==
    /\ raised' = step
    /\ aexit' = <<1>>
    /\ apc' = "done"

\* faulty variant: the loop steps over a record
ReturnSkipsOne ==
    /\ idx' = idx + 2
    /\ apc' = "for"

\* process_repo returns: the for loop moves to the next record
Return ==
    /\ idx' = idx + 1
    /\ apc' = "for"

AInit ==
    /\ apc = "start"
    /\ args \in ArgSets
    /\ env \in [license_exists : BOOLEAN, loadable : BOOLEAN, listing : Listings]
    /\ repos = <<>>
    /\ idx = 0
    /\ full_name = None
    /\ dest = None
    /\ dirs \in FsStates
    /\ licensed \in SUBSET (dirs \ ({Workdir} \cup UNION {Parents(d) : d \in dirs}))
    /\ procs = <<>>
    /\ alog = <<>>
    /\ started = <<>>
    /\ raised = "none"
    /\ aexit = <<>>

\* main, lines 119-121: the license file must exist
AMainLicense ==
    /\ apc = "start"
    /\ IF ~env.license_exists
       THEN /\ alog' = Append(alog, "license_not_found")
            /\ aexit' = <<2>>
            /\ apc' = "done"
       ELSE /\ apc' = "load"
            /\ UNCHANGED <<alog, aexit>>
    /\ UNCHANGED <<lvars, pvars, args, env, repos, idx, full_name, dest, dirs, licensed, procs,
                   started, raised>>

\* main, lines 123-127: load the listing
AMainLoad ==
    /\ apc = "load"
    /\ IF ~env.loadable
       THEN /\ alog' = Append(alog, "load_failed")
            /\ aexit' = <<3>>
            /\ apc' = "done"
            /\ UNCHANGED <<repos, idx>>
       ELSE /\ repos' = env.listing
            /\ idx' = 1
            /\ apc' = "for"
            /\ UNCHANGED <<alog, aexit>>
    /\ UNCHANGED <<lvars, pvars, args, env, full_name, dest, dirs, licensed, procs, started, raised>>

\* main, lines 129-132: the for loop calls process_repo or returns 0
AFor ==
    /\ apc = "for"
    /\ IF idx > Len(repos)
       THEN /\ aexit' = <<0>>
            /\ apc' = "done"
            /\ UNCHANGED started
       ELSE /\ started' = Append(started, idx)
            /\ apc' = "resolve"
            /\ UNCHANGED aexit
    /\ UNCHANGED <<lvars, pvars, args, env, repos, idx, full_name, dest, dirs, licensed, procs,
                   alog, raised>>

\* process_repo, lines 50-56
AResolve ==
    /\ apc = "resolve"
    /\ LET fn == ResolveName(repos[idx])
       IN  IF ~Truthy(fn)
           THEN /\ alog' = Append(alog, "skip_no_name")
                /\ Return
                /\ UNCHANGED <<full_name, dest>>
           ELSE /\ full_name' = fn
                /\ dest' = DestOf(fn)
                /\ apc' = "clone"
                /\ UNCHANGED <<alog, idx>>
    /\ UNCHANGED <<lvars, pvars, args, env, repos, dirs, licensed, procs, started, raised, aexit>>

\* faulty variant: clone without looking at the directory
ShouldCloneAlways(d) == TRUE

\* the condition of line 58
ShouldClone(d) == ~PathExists(d)

\* faulty variant: the dry-run flag is ignored
MutatingAlways(a) == TRUE

\* the else branches of the dry-run tests (lines 60, 71, 77, 88, 97)
Mutating(a) == ~a.dry_run

\* process_repo, lines 58-66
AClone ==
    /\ apc = "clone"
    /\ IF ShouldClone(dest)
       THEN LET url == RepoCloneUrl(full_name, ~args.no_ssh, args.token)
            IN  IF ~Mutating(args)
                THEN /\ alog' = Append(alog, "dry_clone")
                     /\ apc' = "copy"
                     /\ UNCHANGED <<dirs, procs, raised, aexit>>
                ELSE \/ \* os.makedirs raises
                        /\ Uncaught("makedirs")
                        /\ UNCHANGED <<dirs, procs, alog>>
                     \/ \E rc \in ExitCodes :
                        /\ procs' = Append(procs, Proc("clone", <<"git", "clone">>,
                                                        <<url, dest>>, None, rc))
                        /\ alog' = Append(alog, "$")
                        /\ IF rc = 0
                           THEN /\ dirs' = dirs \cup {Workdir, dest} \cup Parents(dest)
                                /\ apc' = "copy"
                                /\ UNCHANGED <<raised, aexit>>
                           ELSE /\ dirs' = dirs \cup {Workdir}
                                /\ Uncaught("clone")
       ELSE /\ alog' = Append(alog, "exists_skip_clone")
            /\ apc' = "copy"
            /\ UNCHANGED <<dirs, procs, raised, aexit>>
    /\ UNCHANGED <<lvars, pvars, args, env, repos, idx, full_name, dest, licensed, started>>

\* process_repo, lines 68-74
ACopy ==
    /\ apc = "copy"
    /\ IF ~Mutating(args)
       THEN /\ alog' = alog \o <<"copying", "dry_copy">>
            /\ apc' = "add"
            /\ UNCHANGED <<licensed, raised, aexit>>
       ELSE /\ alog' = Append(alog, "copying")
            /\ \/ /\ licensed' = licensed \cup {dest}
                  /\ apc' = "add"
                  /\ UNCHANGED <<raised, aexit>>
               \/ \* shutil.copy raises
                  /\ Uncaught("copy")
                  /\ UNCHANGED licensed
    /\ UNCHANGED <<lvars, pvars, args, env, repos, idx, full_name, dest, dirs, procs, started>>

\* process_repo, lines 76-80
AAdd ==
    /\ apc = "add"
    /\ IF ~Mutating(args)
       THEN /\ alog' = Append(alog, "dry_add")
            /\ apc' = "commit"
            /\ UNCHANGED <<procs, raised, aexit>>
       ELSE \E rc \in ExitCodes :
            /\ procs' = Append(procs, Proc("add", <<"git", "add", "LICENSE">>, <<>>, dest, rc))
            /\ alog' = Append(alog, "$")
            /\ IF rc = 0
               THEN /\ apc' = "commit"
                    /\ UNCHANGED <<raised, aexit>>
               ELSE Uncaught("add")
    /\ UNCHANGED <<lvars, pvars, args, env, repos, idx, full_name, dest, dirs, licensed, started>>

\* faulty variant: the commit's CalledProcessError is not caught
ACommitUncaught ==
    /\ apc = "commit"
    /\ IF args.dry_run
       THEN /\ alog' = Append(alog, "dry_commit")
            /\ apc' = "push"
            /\ UNCHANGED <<procs, raised, aexit>>
       ELSE \E rc \in ExitCodes :
            /\ procs' = Append(procs, Proc("commit", CommitCmd(~args.no_sign), <<>>, dest, rc))
            /\ alog' = Append(alog, "$")
            /\ IF rc = 0
               THEN /\ apc' = "push"
                    /\ UNCHANGED <<raised, aexit>>
               ELSE Uncaught("commit")
    /\ UNCHANGED <<lvars, pvars, args, env, repos, idx, full_name, dest, dirs, licensed, started>>

\* faulty variant: a failed commit ends the record: process_repo returns from the except clause
ACommitEndsRecord ==
    /\ apc = "commit"
    /\ IF args.dry_run
       THEN /\ alog' = Append(alog, "dry_commit")
            /\ apc' = "push"
            /\ UNCHANGED <<procs, idx>>
       ELSE \E rc \in ExitCodes :
            /\ procs' = Append(procs, Proc("commit", CommitCmd(~args.no_sign), <<>>, dest, rc))
            /\ alog' = IF rc = 0 THEN Append(alog, "$") ELSE alog \o <<"$", "commit_failed">>
            /\ IF rc = 0
               THEN /\ apc' = "push"
                    /\ UNCHANGED idx
               ELSE Return
    /\ UNCHANGED <<lvars, pvars, args, env, repos, full_name, dest, dirs, licensed, started,
                   raised, aexit>>

\* process_repo, lines 82-93: CalledProcessError is caught
ACommit ==
    /\ apc = "commit"
    /\ IF ~Mutating(args)
       THEN /\ alog' = Append(alog, "dry_commit")
            /\ apc' = "push"
            /\ UNCHANGED procs
       ELSE \E rc \in ExitCodes :
            /\ procs' = Append(procs, Proc("commit", CommitCmd(~args.no_sign), <<>>, dest, rc))
            /\ alog' = IF rc = 0 THEN Append(alog, "$") ELSE alog \o <<"$", "commit_failed">>
            /\ apc' = "push"
    /\ UNCHANGED <<idx, raised, aexit>>
    /\ UNCHANGED <<lvars, pvars, args, env, repos, full_name, dest, dirs, licensed, started>>

\* faulty variant: push whatever --push says
ShouldPushAlways(a) == TRUE

\* the condition of line 96
ShouldPush(a) == a.push

\* process_repo, lines 95-103: CalledProcessError is caught
APush ==
    /\ apc = "push"
    /\ IF ShouldPush(args)
       THEN IF ~Mutating(args)
            THEN /\ alog' = Append(alog, "dry_push")
                 /\ UNCHANGED procs
            ELSE \E rc \in ExitCodes :
                 /\ procs' = Append(procs, Proc("push", <<"git", "push", "origin", "HEAD">>,
                                                 <<>>, dest, rc))
                 /\ alog' = IF rc = 0 THEN Append(alog, "$") ELSE alog \o <<"$", "push_failed">>
       ELSE UNCHANGED <<procs, alog>>
    /\ Return
    /\ UNCHANGED <<lvars, pvars, args, env, repos, full_name, dest, dirs, licensed, started,
                   raised, aexit>>

\* ----------------------------------------------------------- Repo Lister
\* per_page of list_unlicensed_repos
PerPage == 100

\* items of the endpoint's JSON: "private" is true, false or absent, "license"
\* is null (None) or an object
ItemA == [name |-> "a", full_name |-> "u/a", html_url |-> "https://github.com/u/a",
          private |-> "false", license |-> None]
ItemB == [name |-> "b", full_name |-> "u/b", html_url |-> "https://github.com/u/b",
          private |-> "absent", license |-> None]
ItemC == [name |-> "c", full_name |-> "u/c", html_url |-> "https://github.com/u/c",
          private |-> "true", license |-> None]
ItemD == [name |-> "d", full_name |-> "u/d", html_url |-> "https://github.com/u/d",
          private |-> "false", license |-> <<"mit">>]
Items == {ItemA, ItemB, ItemC, ItemD}

\* a response: status, X-RateLimit-Reset header (None when absent), JSON body
OkPage(items) == [status |-> 200, reset |-> None, items |-> items]
ErrorResponses ==
    {[status |-> 403, reset |-> <<"9">>, items |-> <<>>],
     [status |-> 403, reset |-> None, items |-> <<>>],
     [status |-> 500, reset |-> None, items |-> <<>>]}

\* the responses that serve at most n items
ResponsesUpTo == [n \in 0..MaxItems |->
                    {OkPage(its) : its \in SeqsUpTo(Items, n)} \cup ErrorResponses]

\* the items served so far
RECURSIVE ServedItems(_)
ServedItems(resps) ==
    IF resps = <<>> THEN 0 ELSE Len(Head(resps).items) + ServedItems(Tail(resps))

\* what the endpoint may answer to the next request: any response within the
\* bounds, and empty pages once MaxPages responses were given
Answers ==
    IF Len(server) >= MaxPages THEN {OkPage(<<>>)}
    ELSE ResponsesUpTo[MaxItems - ServedItems(server)]

\* faulty variant: the test of line 50 is missing: an error body is read as a page
ClassifyLenient(resp) ==
    IF resp.status = 403
    THEN IF Truthy(resp.reset) THEN "rate_limited" ELSE "forbidden"
    ELSE IF resp.items = <<>> THEN "empty" ELSE "items"

\* lines 42-55: what the loop does with a response
Classify(resp) ==
    IF resp.status = 403
    THEN IF Truthy(resp.reset) THEN "rate_limited" ELSE "forbidden"
    ELSE IF resp.status # 200 THEN "api_error"
    ELSE IF resp.items = <<>> THEN "empty"
    ELSE "items"

\* faulty variant: the private flag is not looked at
QualifiesAnyVisibility(r) == r.license = None

\* lines 59-61: r is kept
Qualifies(r) == ~(r.private = "true") /\ r.license = None

\* line 62
RecordOf(r) == [name |-> r.name, full_name |-> r.full_name, html_url |-> r.html_url]

\* lines 57-62: the records a page adds to out
RECURSIVE Collect(_)
Collect(items) ==
    IF items = <<>> THEN <<>>
    ELSE (IF Qualifies(Head(items)) THEN <<RecordOf(Head(items))>> ELSE <<>>)
             \o Collect(Tail(items))

CountLine(n) == [kind |-> "count", n |-> n, url |-> ""]
UrlLine(r) == [kind |-> "url", n |-> 0, url |-> r.html_url]

LArgSets == [token : {None, <<"t">>}, out : {None, <<"o">>}, quiet : BOOLEAN]

LInit ==
    /\ lpc = "fetch"
    /\ largs \in LArgSets
    /\ server = <<>>
    /\ writable \in (IF largs.out = None THEN {TRUE} ELSE BOOLEAN)
    /\ page = 1
    /\ out = <<>>
    /\ requests = <<>>
    /\ lstdout = <<>>
    /\ lstderr = <<>>
    /\ outfile = [written |-> FALSE, content |-> <<>>]
    /\ lexit = <<>>

\* list_unlicensed_repos, lines 38-64: one turn of the while loop; a SystemExit
\* raised by it is caught by main, lines 79-81
LFetch ==
    /\ lpc = "fetch"
    /\ requests' = Append(requests, [page |-> page, per_page |-> PerPage,
                                     auth |-> IF Truthy(largs.token) THEN largs.token ELSE None])
    /\ \E resp \in Answers :
        /\ server' = Append(server, resp)
        /\ LET what == Classify(resp)
           IN  IF what \in {"rate_limited", "forbidden", "api_error"}
               THEN /\ lstderr' = Append(lstderr, what)
                    /\ lexit' = <<2>>
                    /\ lpc' = "done"
                    /\ UNCHANGED <<page, out>>
               ELSE IF what = "empty"
               THEN /\ lpc' = "print"
                    /\ UNCHANGED <<page, out, lstderr, lexit>>
               ELSE /\ out' = out \o Collect(resp.items)
                    /\ page' = page + 1
                    /\ UNCHANGED <<lpc, lstderr, lexit>>
    /\ UNCHANGED <<avars, pvars, largs, writable, lstdout, outfile>>

\* main, lines 83-87
LPrint ==
    /\ lpc = "print"
    /\ lstdout' = (IF largs.quiet THEN <<>> ELSE <<CountLine(Len(out))>>)
                      \o [i \in DOMAIN out |-> UrlLine(out[i])]
    /\ lpc' = "write"
    /\ UNCHANGED <<avars, pvars, largs, server, writable, page, out, requests, lstderr,
                   outfile, lexit>>

\* main, lines 89-95
LWrite ==
    /\ lpc = "write"
    /\ IF Truthy(largs.out)
       THEN IF writable
            THEN /\ outfile' = [written |-> TRUE, content |-> out]
                 /\ lpc' = "finish"
                 /\ UNCHANGED <<lstderr, lexit>>
            ELSE /\ lstderr' = Append(lstderr, "write_failed")
                 /\ lexit' = <<3>>
                 /\ lpc' = "done"
                 /\ UNCHANGED outfile
       ELSE /\ lpc' = "finish"
            /\ UNCHANGED <<outfile, lstderr, lexit>>
    /\ UNCHANGED <<avars, pvars, largs, server, writable, page, out, requests, lstdout>>

\* main, lines 97-102
LFinish ==
    /\ lpc = "finish"
    /\ lstderr' = IF out = <<>> /\ ~largs.quiet THEN Append(lstderr, "none_found") ELSE lstderr
    /\ lexit' = <<0>>
    /\ lpc' = "done"
    /\ UNCHANGED <<avars, pvars, largs, server, writable, page, out, requests, lstdout, outfile>>

\* ------------------------------------------- directory derivation, one record
Alphabet == {"u", "a", Sep}

\* every text of at most MaxNameLen characters
Names == SeqsUpTo(Alphabet, MaxNameLen)

\* the "name" field next to it
FallbackNames == {None, <<"a">>, <<"u", Sep, "a">>, <<"u", Sep, "a", Sep, "a">>}

PInit ==
    /\ ppc = "resolve"
    /\ prec \in [full_name : Names \cup {None}, name : FallbackNames]
    /\ pname = None
    /\ pdest = None

\* process_repo, lines 50-56, on prec
PDerive ==
    /\ ppc = "resolve"
    /\ LET fn == ResolveName(prec)
       IN  IF ~Truthy(fn)
           THEN /\ ppc' = "skipped"
                /\ UNCHANGED <<pname, pdest>>
           ELSE /\ pname' = fn
                /\ pdest' = DestOf(fn)
                /\ ppc' = "derived"
    /\ UNCHANGED <<avars, lvars, prec>>

\* ---------------------------------------------------------- specifications
\* a program that is not the one running
AIdle ==
    /\ apc = "idle"
    /\ args = [dry_run |-> FALSE, push |-> FALSE, no_ssh |-> FALSE, token |-> None,
               no_sign |-> FALSE]
    /\ env = [license_exists |-> FALSE, loadable |-> FALSE, listing |-> <<>>]
    /\ repos = <<>> /\ idx = 0 /\ full_name = None /\ dest = None
    /\ dirs = {} /\ licensed = {} /\ procs = <<>> /\ alog = <<>>
    /\ started = <<>> /\ raised = "none" /\ aexit = <<>>

LIdle ==
    /\ lpc = "idle"
    /\ largs = [token |-> None, out |-> None, quiet |-> FALSE]
    /\ server = <<>> /\ writable = TRUE /\ page = 0 /\ out = <<>>
    /\ requests = <<>> /\ lstdout = <<>> /\ lstderr = <<>>
    /\ outfile = [written |-> FALSE, content |-> <<>>]
    /\ lexit = <<>>

PIdle ==
    /\ ppc = "idle" /\ prec = [full_name |-> None, name |-> None]
    /\ pname = None /\ pdest = None

\* the License Applier
Init == AInit /\ LIdle /\ PIdle

Next ==
    \/ AMainLicense
    \/ AMainLoad
    \/ AFor
    \/ AResolve
    \/ AClone
    \/ ACopy
    \/ AAdd
    \/ ACommit
    \/ APush

Spec == Init /\ [][Next]_vars

\* the Repo Lister
ListerInit == LInit /\ AIdle /\ PIdle

ListerNext ==
    \/ LFetch
    \/ LPrint
    \/ LWrite
    \/ LFinish

ListerSpec == ListerInit /\ [][ListerNext]_vars

\* process_repo's directory derivation
PathInit == PInit /\ AIdle /\ LIdle

PathNext == PDerive

PathSpec == PathInit /\ [][PathNext]_vars

\* ------------------------------------------------ properties of the Applier
Range(f) == {f[i] : i \in DOMAIN f}

Upto(n) == [i \in 1..n |-> i]

\* positions in procs of the processes of kind op that exited non-zero
FailedProcs(op) == {k \in DOMAIN procs : procs[k].op = op /\ procs[k].rc # 0}

Finished == apc = "done"

\* C1: under --dry-run no step of the Applier changes the directories or the
\* LICENSE files on disk, and no external process has been or is invoked,
\* whatever the other flags, the listing and the initial Workdir are.
C1_DryRunNoSideEffects ==
    [][args.dry_run => /\ dirs' = dirs
                       /\ licensed' = licensed
                       /\ procs = <<>>
                       /\ procs' = <<>>]_vars

\* a dry run over two records, with --push, one target directory absent and one
\* present, has run to the end
C1_Witness ==
    /\ args.dry_run /\ args.push /\ Finished /\ aexit = <<0>>
    /\ Len(started) = 2
    /\ "dry_clone" \in Range(alog) /\ "exists_skip_clone" \in Range(alog)
    /\ "dry_push" \in Range(alog)

\* C2: a git clone is invoked only when the record's derived directory does not
\* exist at that moment, and it clones into that directory; when the directory
\* exists the clone step invokes no process.
C2_NoCloneIntoExisting ==
    [][/\ (Len(procs') > Len(procs) /\ procs'[Len(procs')].op = "clone")
            => /\ dest \notin dirs
               /\ procs'[Len(procs')].operands[2] = dest
       /\ (apc = "clone" /\ dest \in dirs) => procs' = procs]_vars

\* a real run found the directory (already holding a LICENSE), skipped the clone
\* and went on to stage the file there
C2_Witness ==
    /\ ~args.dry_run
    /\ "exists_skip_clone" \in Range(alog)
    /\ \E k \in DOMAIN procs :
        /\ procs[k].op = "add"
        /\ procs[k].cwd \in licensed
        /\ \A j \in DOMAIN procs : procs[j].rec = procs[k].rec => procs[j].op # "clone"

C4_CommitPushFailureCaught ==
    /\ raised \notin {"commit", "push"}
    /\ Cardinality(FailedProcs("commit")) = Cardinality({i \in DOMAIN alog : alog[i] = "commit_failed"})
    /\ Cardinality(FailedProcs("push")) = Cardinality({i \in DOMAIN alog : alog[i] = "push_failed"})
    /\ \A k \in FailedProcs("commit") \cup FailedProcs("push") :
        /\ (Finished /\ procs[k].rec < Len(repos)) => (procs[k].rec + 1) \in Range(started)
        /\ (Finished /\ raised = "none") => aexit = <<0>>

\* record 1 saw its commit and its push fail, record 2 was processed, exit code 0
C4_Witness ==
    /\ Finished /\ aexit = <<0>> /\ Len(repos) = 2
    /\ \E k \in FailedProcs("commit") : procs[k].rec = 1
    /\ \E k \in FailedProcs("push") : procs[k].rec = 1
    /\ \E k \in DOMAIN procs : procs[k].rec = 2

\* C7: without --push no git push is ever invoked; with it, a push is invoked
\* only right after the commit of the same record has been run.
C7_PushOnlyWhenAsked ==
    /\ ~args.push => \A k \in DOMAIN procs : procs[k].op # "push"
    /\ \A k \in DOMAIN procs : procs[k].op = "push" =>
        /\ args.push /\ ~args.dry_run
        /\ k > 1
        /\ procs[k-1].op = "commit"
        /\ procs[k-1].rec = procs[k].rec

\* a real run without --push committed for two records and ended
C7_Witness ==
    /\ ~args.push /\ ~args.dry_run /\ Finished /\ aexit = <<0>>
    /\ \E j, k \in DOMAIN procs :
        procs[j].op = "commit" /\ procs[k].op = "commit" /\ procs[j].rec # procs[k].rec

\* C8 (as stated): records with different full_name values use different
\* directories: two processes that ran in the same checkout belong to records
\* of the same name.
C8_DisjointDirectories ==
    \A j, k \in DOMAIN procs :
        (procs[j].cwd # None /\ procs[j].cwd = procs[k].cwd)
            => ResolveName(repos[procs[j].rec]) = ResolveName(repos[procs[k].rec])

\* C10 (as stated): after a commit that exited non-zero no further step of that
\* record is executed: no later process belongs to the same record.
C10_CommitFailureEndsRecord ==
    \A k \in FailedProcs("commit") :
        \A j \in DOMAIN procs : j > k => procs[j].rec # procs[k].rec

\* C10 (amended): a failed commit is logged and ends neither the batch nor the
\* record: with --push the push of that same record is the next process
\* invoked, without --push the record has no further process; either way the
\* loop then moves to the next record.
C10_CommitFailureContinues ==
    /\ raised # "commit"
    /\ \A k \in FailedProcs("commit") :
        /\ (Finished \/ idx > procs[k].rec) =>
              IF args.push
              THEN /\ k < Len(procs)
                   /\ procs[k+1].op = "push"
                   /\ procs[k+1].rec = procs[k].rec
              ELSE \A j \in DOMAIN procs : j > k => procs[j].rec > procs[k].rec
        /\ (Finished /\ procs[k].rec < Len(repos)) => (procs[k].rec + 1) \in Range(started)

\* with --push: record 1's commit failed, its push was invoked all the same, and
\* record 2 was processed
C10_Witness ==
    /\ args.push /\ Finished /\ Len(repos) = 2
    /\ \E k \in FailedProcs("commit") :
        /\ procs[k].rec = 1
        /\ k < Len(procs)
        /\ procs[k+1].op = "push" /\ procs[k+1].rec = 1
    /\ \E k \in DOMAIN procs : procs[k].rec = 2

\* ------------------------------------------------- properties of the Lister
\* list_unlicensed_repos has returned its list to main
Returned == lpc \in {"print", "write", "finish"} \/ (lpc = "done" /\ lexit # <<2>>)

\* the first page the endpoint served empty
FirstEmptyPage ==
    CHOOSE k \in DOMAIN server :
        /\ server[k].items = <<>>
        /\ \A j \in 1..(k-1) : server[j].items # <<>>

\* the items of pages 1..n, page after page
RECURSIVE ItemsOfPages(_)
ItemsOfPages(n) == IF n = 0 THEN <<>> ELSE ItemsOfPages(n - 1) \o server[n].items

Unlicensed(r) == r.license = None /\ r.private # "true"

\* C5: when every page up to the first empty page k is served with status 200,
\* the list returned holds the {name, full_name, html_url} records of exactly
\* the items of pages 1..k-1 with license null and private not true, in page
\* order and item order, and the requests sent are those for pages 1..k, once each.
C5_ReturnsUnlicensedOfAllPages ==
    Returned =>
        LET k == FirstEmptyPage
            kept == SelectSeq(ItemsOfPages(k - 1), Unlicensed)
        IN  /\ Len(out) = Len(kept)
            /\ \A i \in DOMAIN out :
                /\ out[i].name = kept[i].name
                /\ out[i].full_name = kept[i].full_name
                /\ out[i].html_url = kept[i].html_url
                /\ DOMAIN out[i] = {"name", "full_name", "html_url"}
            /\ \A i \in DOMAIN server : server[i].status = 200
            /\ Len(requests) = k
            /\ \A i \in DOMAIN requests : requests[i].page = i /\ requests[i].per_page = PerPage

\* two non-empty pages were served: a private and a licensed item were left
\* out, and the unlicensed public item of the second page was returned
C5_Witness ==
    /\ Returned
    /\ Len(requests) = 3
    /\ ItemC \in Range(server[1].items)
    /\ ItemD \in Range(server[2].items)
    /\ Len(server[2].items) = 2
    /\ Len(out) = 1

\* the requests answered with a status other than 200
Refused == {i \in DOMAIN server : server[i].status # 200}

FinalSegment(s) ==
    IF \E i \in DOMAIN s : s[i] = Sep
    THEN LET i == CHOOSE i \in DOMAIN s : s[i] = Sep /\ \A j \in (i+1)..Len(s) : s[j] # Sep
         IN  SubSeq(s, i + 1, Len(s))
    ELSE s

SepCount(s) == Cardinality({i \in DOMAIN s : s[i] = Sep})

\* C9 (as stated): the directory of a record with a usable name is
\* workdir/<final "/"-separated segment of the name>, however many "/" it has.
C9_DestIsFinalSegment ==
    ppc = "derived" =>
        /\ pname = (IF prec.full_name \notin {None, <<>>} THEN prec.full_name ELSE prec.name)
        /\ pdest = Workdir \o <<Sep>> \o FinalSegment(pname)

\* C9 (amended): the directory is os.path.join(workdir, r), r being the text
\* after the FIRST "/" of the name (the whole name when it has none): that is
\* workdir/r, or r itself when r begins with "/"; r is the final segment, and
\* the directory workdir/<final segment>, for the names with at most one "/".
C9_DestIsRestAfterFirstSep ==
    ppc = "derived" =>
        /\ pname = (IF prec.full_name \notin {None, <<>>} THEN prec.full_name ELSE prec.name)
        /\ \E i \in 0..Len(pname) :
            LET owner == SubSeq(pname, 1, i - 1)
                r == SubSeq(pname, i + 1, Len(pname))
            IN  /\ \/ i = 0 /\ SepCount(pname) = 0
                   \/ i > 0 /\ pname[i] = Sep /\ SepCount(owner) = 0
                /\ pdest = IF r # <<>> /\ Head(r) = Sep THEN r ELSE Workdir \o <<Sep>> \o r
        /\ SepCount(pname) <= 1 => pdest = Workdir \o <<Sep>> \o FinalSegment(pname)

\* a name with two "/" was resolved from full_name and its directory derived
C9_Witness ==
    /\ ppc = "derived"
    /\ prec.full_name = pname
    /\ pname = <<"u", Sep, "a", Sep, "a">>
    /\ pdest = <<"w", Sep, "a", Sep, "a">>

====
